---- MODULE Spec2Model ----
(***************************************************************************)
(* The inpaint mask-drawing session of src/src/index.tsx: the module-level *)
(* inpaint state, the handlers wired by renderInpaintUI and                *)
(* initializeInpaintCanvas, the submit handler and its response.           *)
(*                                                                         *)
(* Every handler is an operator from a state record to a state record     *)
(* (the fields carry the names of the source's variables), so that a       *)
(* handler that calls another one is the composition of the two.  An       *)
(* action of the model applies one handler to the current state.          *)
(*                                                                         *)
(* A raster is the alpha channel of a canvas: a sequence of width*height   *)
(* bytes, row by row.  The mask is only ever painted white, so the colour  *)
(* channels carry no information and are left out.  Coordinates are CSS    *)
(* pixels; the brush radius is inpaintBrushSize / 2, so distances are      *)
(* compared doubled and squared (4*d^2 against brush^2) to stay integral.  *)
(*                                                                         *)
(* The display canvas is modelled by its size and by the mask overlay last  *)
(* drawn on it; the picture under the overlay is left out.                 *)
(*                                                                         *)
(* A visit to another tab and the return to the inpaint tab are one step:   *)
(* no element of the inpaint tab exists in between.  An Image whose load   *)
(* is pending when it is replaced or its image removed is taken to fire    *)
(* its load event before the next Image is created.                        *)
(***************************************************************************)
EXTENDS Integers, Sequences, FiniteSets, TLC

VARIABLES
    inpaintImage,          \* line 105: the uploaded file, or NULL
    inpaintOriginalImage,  \* line 134: the Image element being decoded, or NULL
    inpaintDisplayCanvas,  \* line 132: reference to the DOM canvas, or NULL
    inpaintMaskCanvas,     \* line 133: the off-screen mask canvas, or NULL
    inpaintIsDrawing,      \* line 135
    inpaintBrushSize,      \* line 136
    inpaintUndoStack,      \* line 137: ImageData snapshots, most recent last
    isLoading,             \* line 106
    generationCount,       \* line 115
    displayCanvasEl,       \* the DOM element #inpaint-display-canvas (its size)
    displayOverlay,        \* the mask overlay drawn on that element (alpha, row by row)
    btnDisabled,           \* the DOM property #inpaint-btn.disabled
    promptValue,           \* the DOM property #inpaint-prompt-input.value
    inflight,              \* the request handed to ai.models.generateContent, or NULL
    originalImage,         \* line 102: the picture of the background tab, or NULL
    restorationImage,      \* line 104: the picture of the restore tab, or NULL
    pending,               \* the calls of the other handlers awaited, by kind
    savedImages,           \* line 110: the ids of the saved images listed
    db,                    \* the ids of the images in the IndexedDB store
    dbLoad,                \* the promise of getAllImagesFromDb() made by App
    dbOps,                 \* the writes to the store awaited, oldest first
    lastOutcome,           \* observer: what the call settled last returned
    lastEvent,             \* observer: the handler that ran last and what it did
    stroke,                \* observer: a pointer is held down on the mask canvas
    scenario,              \* observer: progress of a stroke/clear followed by undo
    strokes,               \* observer: the mask canvas before each stroke of a scenario
    undone,                \* observer: the state before and after each undo of a scenario
    painted                \* observer: the circles painted so far

progVars == <<inpaintImage, inpaintOriginalImage, inpaintDisplayCanvas,
              inpaintMaskCanvas, inpaintIsDrawing, inpaintBrushSize,
              inpaintUndoStack, isLoading, generationCount, displayCanvasEl,
              displayOverlay, btnDisabled, promptValue, inflight,
              originalImage, restorationImage, pending,
              savedImages, db, dbLoad, dbOps>>

vars == <<inpaintImage, inpaintOriginalImage, inpaintDisplayCanvas,
          inpaintMaskCanvas, inpaintIsDrawing, inpaintBrushSize,
          inpaintUndoStack, isLoading, generationCount, displayCanvasEl,
          displayOverlay, btnDisabled, promptValue, inflight,
          originalImage, restorationImage, pending,
          savedImages, db, dbLoad, dbOps, lastOutcome, lastEvent, stroke,
          scenario,
          strokes, undone, painted>>

----------------------------------------------------------------------------
(* Program constants *)

GENERATION_LIMIT == 30

UNDO_LIMIT == 10

InitialBrushSize == 30

BrushMin == 5

BrushMax == 100

----------------------------------------------------------------------------
(* Bounds of the model *)

\* clientWidth of #inpaint-canvas-wrapper, in pixels
ContainerWidth == 16

\* the alpha an anti-aliased fill gives a pixel the circle covers only in part
\* (the platform's rasteriser decides it; any value in 1..254 stands for it)
EdgeAlpha == 128

\* Spec: the user starts no further stroke or clear once the history holds this many
MaxHistory == 3

\* generations still allowed by the stored count when the page is opened
MaxGenerations == 1

\* SpecUndo: strokes drawn before the undos, and pointer-move samples in all
MaxStrokes == 15

MaxMoves == 1

\* SpecPaint: paintCircle calls in one sequence
MaxPaints == 2

\* SpecRequests: calls awaited at the same time
MaxPending == 2

\* SpecStorage: images ever saved, and writes to the store awaited at the same time
MaxImages == 3

MaxWrites == 3

----------------------------------------------------------------------------
(* Values *)

NULL == [null |-> TRUE]

\* the size a canvas element has before its width and height are set (the
\* platform's 300 x 150, at the scale of the model's rasters)
DefaultCanvasSize == [width |-> 2, height |-> 1]

REF == [ref |-> "inpaint-display-canvas"]

\* the calls a handler other than handleInpaintClick awaits: the image requests
\* of the three other tabs, the two text requests, and the reading of the file
\* chosen for analysis
ImageRequests == {"generate", "background", "restore"}

TextRequests == {"suggest", "analyze"}

AwaitedCalls == ImageRequests \cup TextRequests \cup {"read"}

NonePending == [k \in AwaitedCalls |-> 0]

Max(a, b) == IF a >= b THEN a ELSE b

Min(a, b) == IF a <= b THEN a ELSE b

\* The files offered to the upload zone, with the natural size of each image.
NaturalSize(src) ==
    CASE src = "small" -> [width |-> 2, height |-> 1]
      [] src = "wide"   -> [width |-> 2 * ContainerWidth, height |-> 2]
      [] OTHER          -> [width |-> 3, height |-> 2]

\* String.prototype.trim on a value given as a sequence of characters.
RECURSIVE TrimStart(_)
TrimStart(v) ==
    IF v # <<>> /\ Head(v) = " " THEN TrimStart(Tail(v)) ELSE v

RECURSIVE TrimEnd(_)
TrimEnd(v) ==
    IF v # <<>> /\ v[Len(v)] = " " THEN TrimEnd(SubSeq(v, 1, Len(v) - 1)) ELSE v

Trim(v) == TrimEnd(TrimStart(v))

----------------------------------------------------------------------------
(* Canvas and ImageData *)

\* document.createElement('canvas'), and the effect of setting width/height:
\* a canvas of the given size with every pixel transparent.
BlankCanvas(w, h) ==
    [width |-> w, height |-> h, data |-> [k \in 1..(w * h) |-> 0]]

\* ctx.getImageData(0, 0, canvas.width, canvas.height): a copy of the pixels.
GetImageData(canvas) ==
    [width |-> canvas.width, height |-> canvas.height, data |-> canvas.data]

\* mutant: the alpha channel is written back thresholded, every set pixel opaque
PutImageDataOpaque(canvas, image) ==
    [canvas EXCEPT !.data =
        [k \in 1..(canvas.width * canvas.height) |->
            LET i == (k - 1) % canvas.width
                j == (k - 1) \div canvas.width
            IN IF i < image.width /\ j < image.height
               THEN IF image.data[j * image.width + i + 1] > 0 THEN 255 ELSE 0
               ELSE canvas.data[k]]]

\* ctx.putImageData(image, 0, 0): the pixels of image replace those of the canvas
\* where the two overlap; the canvas keeps its size.
PutImageData(canvas, image) ==
    [canvas EXCEPT !.data =
        [k \in 1..(canvas.width * canvas.height) |->
            LET i == (k - 1) % canvas.width
                j == (k - 1) \div canvas.width
            IN IF i < image.width /\ j < image.height
               THEN image.data[j * image.width + i + 1]
               ELSE canvas.data[k]]]

\* ctx.clearRect(0, 0, canvas.width, canvas.height)
ClearRect(canvas) ==
    [canvas EXCEPT !.data = [k \in 1..(canvas.width * canvas.height) |-> 0]]

\* Four times the squared distance from (x, y) to the nearest point of pixel (i, j).
Near4(i, j, x, y) ==
    LET dx == Max(0, Max(i - x, x - (i + 1)))
        dy == Max(0, Max(j - y, y - (j + 1)))
    IN 4 * (dx * dx + dy * dy)

\* Four times the squared distance from (x, y) to the farthest corner of pixel (i, j).
Far4(i, j, x, y) ==
    LET dx == Max(x - i, (i + 1) - x)
        dy == Max(y - j, (j + 1) - y)
    IN 4 * (dx * dx + dy * dy)

\* source-over of white with alpha a over a pixel of alpha d
SourceOver(a, d) == a + (d * (255 - a)) \div 255

\* mutant: the radius is taken for the diameter, the circle drawn half as wide
FillArcHalfRadius(canvas, x, y, brush) ==
    [canvas EXCEPT !.data =
        [k \in 1..(canvas.width * canvas.height) |->
            LET i == (k - 1) % canvas.width
                j == (k - 1) \div canvas.width
            IN IF 4 * Far4(i, j, x, y) <= brush * brush THEN 255
               ELSE IF 4 * Near4(i, j, x, y) < brush * brush
                    THEN SourceOver(EdgeAlpha, canvas.data[k])
               ELSE canvas.data[k]]]

\* mutant: the brush value is passed to arc as the radius
FillArcFullRadius(canvas, x, y, brush) ==
    [canvas EXCEPT !.data =
        [k \in 1..(canvas.width * canvas.height) |->
            LET i == (k - 1) % canvas.width
                j == (k - 1) \div canvas.width
            IN IF brush <= 0 THEN canvas.data[k]
               ELSE IF Far4(i, j, x, y) <= 4 * brush * brush THEN 255
               ELSE IF Near4(i, j, x, y) < 4 * brush * brush
                    THEN SourceOver(EdgeAlpha, canvas.data[k])
               ELSE canvas.data[k]]]

\* fillStyle = 'white'; beginPath(); arc(x, y, brush / 2, 0, 2*PI); fill():
\* a pixel wholly inside the circle becomes opaque, a pixel the circle covers in
\* part is blended with the edge alpha, a pixel outside is untouched.  The canvas
\* clips: nothing outside [0, width) x [0, height) exists.
FillArc(canvas, x, y, brush) ==
    [canvas EXCEPT !.data =
        [k \in 1..(canvas.width * canvas.height) |->
            LET i == (k - 1) % canvas.width
                j == (k - 1) \div canvas.width
            IN IF brush <= 0 THEN canvas.data[k]
               ELSE IF Far4(i, j, x, y) <= brush * brush THEN 255
               ELSE IF Near4(i, j, x, y) < brush * brush
                    THEN SourceOver(EdgeAlpha, canvas.data[k])
               ELSE canvas.data[k]]]

\* lines 1465-1472: the scan of the alpha channel for a value above 0
HasDrawing(image) == \E k \in 1..Len(image.data) : image.data[k] > 0

----------------------------------------------------------------------------
(* Events *)

\* getBoundingClientRect() of the display canvas
CanvasRect == [left |-> 3, top |-> 2]

\* a MouseEvent over canvas position (x, y)
Mouse(x, y) ==
    [kind |-> "mouse", clientX |-> x + CanvasRect.left, clientY |-> y + CanvasRect.top]

\* a TouchEvent whose primary touch point is over canvas position (x, y)
Touch(x, y) ==
    [kind |-> "touch",
     touches |-> <<[clientX |-> x + CanvasRect.left, clientY |-> y + CanvasRect.top]>>]

\* mutant: the position is clamped to the canvas origin
GetEventPositionClamped(event) ==
    IF event.kind = "mouse"
    THEN [x |-> Max(0, event.clientX - CanvasRect.left),
          y |-> Max(0, event.clientY - CanvasRect.top)]
    ELSE [x |-> Max(0, event.touches[1].clientX - CanvasRect.left),
          y |-> Max(0, event.touches[1].clientY - CanvasRect.top)]

\* lines 1830-1844
GetEventPosition(event) ==
    IF event.kind = "mouse"
    THEN [x |-> event.clientX - CanvasRect.left, y |-> event.clientY - CanvasRect.top]
    ELSE [x |-> event.touches[1].clientX - CanvasRect.left,
          y |-> event.touches[1].clientY - CanvasRect.top]

----------------------------------------------------------------------------
(* Handlers: from the state before to the state after *)

\* a display canvas of the given size with no overlay on it
NoOverlay(size) == [k \in 1..(size.width * size.height) |-> 0]

\* drawing with globalAlpha = 0.5 halves the alpha of what is drawn
HalfAlpha(a) == (a + 1) \div 2

\* lines 1882-1908: the display canvas is cleared, the image drawn, and the mask
\* drawn over it at (0, 0), tinted, at half its alpha
RedrawInpaintDisplay(s) ==
    IF s.inpaintDisplayCanvas = NULL \/ s.inpaintOriginalImage = NULL
       \/ s.inpaintMaskCanvas = NULL
    THEN s
    ELSE [s EXCEPT !.displayOverlay =
            [k \in 1..(s.displayCanvasEl.width * s.displayCanvasEl.height) |->
                LET i == (k - 1) % s.displayCanvasEl.width
                    j == (k - 1) \div s.displayCanvasEl.width
                    mask == s.inpaintMaskCanvas
                IN IF i < mask.width /\ j < mask.height
                   THEN HalfAlpha(mask.data[j * mask.width + i + 1])
                   ELSE 0]]

\* lines 1447-1475; #inpaint-btn and #inpaint-prompt-input exist in the inpaint tab
UpdateInpaintButtonState(s) ==
    IF s.inpaintMaskCanvas = NULL THEN s
    ELSE IF s.generationCount >= GENERATION_LIMIT
         THEN [s EXCEPT !.btnDisabled = TRUE]
    ELSE LET hasImage   == s.inpaintImage # NULL
             hasPrompt  == Trim(s.promptValue) # <<>>
             hasDrawing == HasDrawing(GetImageData(s.inpaintMaskCanvas))
         IN [s EXCEPT !.btnDisabled =
                s.isLoading \/ ~hasImage \/ ~hasPrompt \/ ~hasDrawing]

\* lines 162-177
IncrementGenerationCount(s) ==
    LET s1 == [s EXCEPT !.generationCount = @ + 1]
    IN IF s1.generationCount >= GENERATION_LIMIT
       THEN [s1 EXCEPT !.btnDisabled = TRUE]
       ELSE s1

\* an id no image stored, listed or being written has: `saved-${Date.now()}-
\* ${Math.random()}` (line 2180)
FreshId(s) ==
    LET used == s.db \cup {s.savedImages[k] : k \in 1..Len(s.savedImages)}
                     \cup {s.dbOps[k].id : k \in 1..Len(s.dbOps)}
    IN IF used = {} THEN 1 ELSE 1 + CHOOSE m \in used : \A n \in used : n <= m

\* the ids of a set in the order of their keys, as store.getAll() returns them
RECURSIVE InKeyOrder(_)
InKeyOrder(ids) ==
    IF ids = {} THEN <<>>
    ELSE LET least == CHOOSE m \in ids : \A n \in ids : m <= n
         IN <<least>> \o InKeyOrder(ids \ {least})

\* Array.prototype.filter(img => img.id !== id)
RECURSIVE WithoutId(_, _)
WithoutId(list, id) ==
    IF list = <<>> THEN <<>>
    ELSE IF Head(list) = id THEN WithoutId(Tail(list), id)
    ELSE <<Head(list)>> \o WithoutId(Tail(list), id)

\* mutant: the image is listed as soon as it is handed over, before it is stored
HandleSaveImageListsAtOnce(s, id) ==
    [s EXCEPT !.savedImages = Append(@, id),
              !.dbOps = Append(@, [op |-> "put", id |-> id])]

\* lines 2178-2183: handleSaveImage up to the await of addImageToDb
HandleSaveImage(s, id) ==
    [s EXCEPT !.dbOps = Append(@, [op |-> "put", id |-> id])]

\* lines 2238-2240: handleRemoveSavedImage up to the await of deleteImageFromDb
HandleRemoveSavedImage(s, id) ==
    [s EXCEPT !.dbOps = Append(@, [op |-> "delete", id |-> id])]

\* lines 35-45 and 2185-2193, lines 66-75 and 2242-2252: the transaction of the
\* oldest write completes and its handler goes on, or it fails and the handler
\* logs the error
HandleStored(s, ok) ==
    LET head == Head(s.dbOps)
        s1   == [s EXCEPT !.dbOps = Tail(@)]
    IN IF ~ok THEN s1
       ELSE IF head.op = "put"
       THEN [s1 EXCEPT !.db = @ \cup {head.id},
                       !.savedImages = Append(@, head.id)]
       ELSE [s1 EXCEPT !.db = @ \ {head.id},
                       !.savedImages = WithoutId(@, head.id)]

\* lines 50-60 and 289-303: getAllImagesFromDb settles and App's callback runs
HandleImagesLoaded(s, ok) ==
    IF ok
    THEN [s EXCEPT !.dbLoad = "done", !.savedImages = InKeyOrder(s.db)]
    ELSE [s EXCEPT !.dbLoad = "failed", !.savedImages = <<>>]

\* lines 1752-1765 and 1785: the synchronous part of initializeInpaintCanvas
InitializeInpaintCanvas(s, fileData) ==
    [s EXCEPT !.inpaintDisplayCanvas = REF,
              !.inpaintMaskCanvas = BlankCanvas(DefaultCanvasSize.width, DefaultCanvasSize.height),
              !.inpaintOriginalImage = [src |-> fileData.base64, complete |-> FALSE]]

\* lines 1290-1321, type 'inpaint'; the data URL stands for the picture it encodes
ProcessSingleFile(s, file) ==
    LET fileData == [file |-> file, base64 |-> file]
    IN UpdateInpaintButtonState(
           InitializeInpaintCanvas([s EXCEPT !.inpaintImage = fileData], fileData))

\* lines 1208-1268: renderInpaintUI as renderActiveTab (line 431) runs it when
\* the user comes back to the inpaint tab: the tab's DOM is built anew (a
\* disabled button, an empty prompt, a display canvas of the default size) and
\* the image held, if any, gets a new mask canvas and a new Image element.
RenderInpaintUI(s) ==
    LET s1 == [s EXCEPT !.inpaintDisplayCanvas = REF,
                        !.displayCanvasEl = DefaultCanvasSize,
                        !.displayOverlay = NoOverlay(DefaultCanvasSize),
                        !.btnDisabled = TRUE,
                        !.promptValue = <<>>]
        s2 == IF s1.inpaintImage # NULL
              THEN InitializeInpaintCanvas(s1, s1.inpaintImage)
              ELSE s1
    IN UpdateInpaintButtonState(s2)

\* lines 1766-1783: inpaintOriginalImage.onload.  canvas.width and canvas.height
\* take the integer part of the value assigned.
ImageOnload(s) ==
    IF s.inpaintOriginalImage = NULL \/ s.inpaintDisplayCanvas = NULL
       \/ s.inpaintMaskCanvas = NULL
    THEN s
    ELSE LET natural == NaturalSize(s.inpaintOriginalImage.src)
             \* scale = Math.min(1, containerWidth / width), applied exactly
             canvasWidth  == IF ContainerWidth >= natural.width
                             THEN natural.width ELSE ContainerWidth
             canvasHeight == IF ContainerWidth >= natural.width
                             THEN natural.height
                             ELSE (natural.height * ContainerWidth) \div natural.width
         IN [s EXCEPT !.inpaintOriginalImage.complete = TRUE,
                      !.displayCanvasEl = [width |-> canvasWidth, height |-> canvasHeight],
                      !.displayOverlay =
                          NoOverlay([width |-> canvasWidth, height |-> canvasHeight]),
                      !.inpaintMaskCanvas = BlankCanvas(canvasWidth, canvasHeight),
                      !.inpaintUndoStack = <<>>]

\* mutant: the remove handler leaves the history as it is
RemoveImageKeepsHistory(s) ==
    UpdateInpaintButtonState(
        [s EXCEPT !.inpaintImage = NULL,
                  !.inpaintOriginalImage = NULL,
                  !.inpaintDisplayCanvas = NULL,
                  !.inpaintMaskCanvas = NULL])

\* lines 1816-1827: the remove button's click listener
RemoveImage(s) ==
    UpdateInpaintButtonState(
        [s EXCEPT !.inpaintImage = NULL,
                  !.inpaintOriginalImage = NULL,
                  !.inpaintDisplayCanvas = NULL,
                  !.inpaintMaskCanvas = NULL,
                  !.inpaintUndoStack = <<>>])

\* mutant: the push without the shift that bounds the history
PushSnapshotUnbounded(stack, image) == Append(stack, image)

\* mutant: at the limit the newest snapshot is dropped instead of the oldest
PushSnapshotDropsNewest(stack, image) ==
    IF Len(stack) >= UNDO_LIMIT THEN stack ELSE Append(stack, image)

\* lines 1854-1855 and 1925-1926: push, then shift when longer than the limit
PushSnapshot(stack, image) ==
    LET pushed == Append(stack, image)
    IN IF Len(pushed) > UNDO_LIMIT THEN Tail(pushed) ELSE pushed

\* lines 1867-1880
InpaintDraw(s, event) ==
    IF ~s.inpaintIsDrawing \/ s.inpaintDisplayCanvas = NULL \/ s.inpaintMaskCanvas = NULL
    THEN s
    ELSE LET pos == GetEventPosition(event)
         IN RedrawInpaintDisplay(
                [s EXCEPT !.inpaintMaskCanvas =
                    FillArc(s.inpaintMaskCanvas, pos.x, pos.y, s.inpaintBrushSize)])

\* mutant: the snapshot is taken after the first circle has been painted
StartInpaintDrawSnapshotsLate(s, event) ==
    IF s.inpaintMaskCanvas = NULL THEN s
    ELSE LET drawn == InpaintDraw([s EXCEPT !.inpaintIsDrawing = TRUE], event)
         IN [drawn EXCEPT !.inpaintUndoStack =
                PushSnapshot(@, GetImageData(drawn.inpaintMaskCanvas))]

\* mutant: inpaintIsDrawing is set before the mask canvas is looked for
StartInpaintDrawFlagsFirst(s, event) ==
    IF s.inpaintMaskCanvas = NULL THEN [s EXCEPT !.inpaintIsDrawing = TRUE]
    ELSE InpaintDraw(
            [s EXCEPT !.inpaintIsDrawing = TRUE,
                      !.inpaintUndoStack =
                          PushSnapshot(@, GetImageData(s.inpaintMaskCanvas))],
            event)

\* lines 1847-1858
StartInpaintDraw(s, event) ==
    IF s.inpaintMaskCanvas = NULL THEN s
    ELSE InpaintDraw(
            [s EXCEPT !.inpaintIsDrawing = TRUE,
                      !.inpaintUndoStack =
                          PushSnapshot(@, GetImageData(s.inpaintMaskCanvas))],
            event)

\* lines 1860-1865
StopInpaintDraw(s) ==
    IF s.inpaintIsDrawing
    THEN UpdateInpaintButtonState([s EXCEPT !.inpaintIsDrawing = FALSE])
    ELSE s

\* mutant: the button state is refreshed outside the if, on every click
HandleUndoAlwaysRefreshes(s) ==
    IF Len(s.inpaintUndoStack) > 0 /\ s.inpaintMaskCanvas # NULL
    THEN LET lastState == s.inpaintUndoStack[Len(s.inpaintUndoStack)]
         IN UpdateInpaintButtonState(RedrawInpaintDisplay(
                [s EXCEPT !.inpaintUndoStack = SubSeq(@, 1, Len(@) - 1),
                          !.inpaintMaskCanvas = PutImageData(@, lastState)]))
    ELSE UpdateInpaintButtonState(s)

\* mutant: shift() in place of pop(): the oldest snapshot is restored
HandleUndoShifts(s) ==
    IF Len(s.inpaintUndoStack) > 0 /\ s.inpaintMaskCanvas # NULL
    THEN LET lastState == Head(s.inpaintUndoStack)
         IN UpdateInpaintButtonState(RedrawInpaintDisplay(
                [s EXCEPT !.inpaintUndoStack = Tail(@),
                          !.inpaintMaskCanvas = PutImageData(@, lastState)]))
    ELSE s

\* lines 1910-1918
HandleUndo(s) ==
    IF Len(s.inpaintUndoStack) > 0 /\ s.inpaintMaskCanvas # NULL
    THEN LET lastState == s.inpaintUndoStack[Len(s.inpaintUndoStack)]
         IN UpdateInpaintButtonState(RedrawInpaintDisplay(
                [s EXCEPT !.inpaintUndoStack = SubSeq(@, 1, Len(@) - 1),
                          !.inpaintMaskCanvas = PutImageData(@, lastState)]))
    ELSE s

\* mutant: the mask is cleared before the snapshot is taken
HandleClearMaskSnapshotsLate(s) ==
    IF s.inpaintMaskCanvas # NULL
    THEN UpdateInpaintButtonState(RedrawInpaintDisplay(
            [s EXCEPT !.inpaintUndoStack =
                          PushSnapshot(@, GetImageData(ClearRect(s.inpaintMaskCanvas))),
                      !.inpaintMaskCanvas = ClearRect(@)]))
    ELSE s

\* lines 1920-1932
HandleClearMask(s) ==
    IF s.inpaintMaskCanvas # NULL
    THEN UpdateInpaintButtonState(RedrawInpaintDisplay(
            [s EXCEPT !.inpaintUndoStack =
                          PushSnapshot(@, GetImageData(s.inpaintMaskCanvas)),
                      !.inpaintMaskCanvas = ClearRect(@)]))
    ELSE s

\* lines 1798-1803: the brush-size slider's input listener
BrushSizeInput(s, value) == [s EXCEPT !.inpaintBrushSize = value]

\* line 1261: typing in the prompt, then the input listener
PromptInput(s, value) == UpdateInpaintButtonState([s EXCEPT !.promptValue = value])

\* line 1956: canvas.toDataURL('image/png'), a lossless encoding of the pixels
ToDataURL(canvas) ==
    [mimeType |-> "image/png", width |-> canvas.width, height |-> canvas.height,
     data |-> canvas.data]

\* mutant: the mask canvas is cleared once it has been exported
HandleInpaintClickClearsExported(s) ==
    IF s.isLoading \/ s.inpaintImage = NULL \/ s.inpaintMaskCanvas = NULL THEN s
    ELSE IF s.generationCount >= GENERATION_LIMIT THEN s
    ELSE IF Trim(s.promptValue) = <<>> THEN s
    ELSE LET s1 == UpdateInpaintButtonState([s EXCEPT !.isLoading = TRUE])
         IN [s1 EXCEPT !.inflight =
                [image  |-> s1.inpaintImage,
                 mask   |-> ToDataURL(s1.inpaintMaskCanvas),
                 prompt |-> s1.promptValue],
                       !.inpaintMaskCanvas = ClearRect(@)]

\* lines 1935-1989: handleInpaintClick up to the call of generateContent
HandleInpaintClick(s) ==
    IF s.isLoading \/ s.inpaintImage = NULL \/ s.inpaintMaskCanvas = NULL THEN s
    ELSE IF s.generationCount >= GENERATION_LIMIT THEN s
    ELSE IF Trim(s.promptValue) = <<>> THEN s
    ELSE LET s1 == UpdateInpaintButtonState([s EXCEPT !.isLoading = TRUE])
         IN [s1 EXCEPT !.inflight =
                [image  |-> s1.inpaintImage,
                 mask   |-> ToDataURL(s1.inpaintMaskCanvas),
                 prompt |-> s1.promptValue]]

\* mutant: a failed request resets the mask and the history
HandleInpaintResponseResets(s, outcome) ==
    LET s1 == IF outcome = "image"
              THEN IncrementGenerationCount(HandleSaveImage(s, FreshId(s)))
              ELSE s
        s2 == IF outcome = "image" \/ s1.inpaintMaskCanvas = NULL THEN s1
              ELSE [s1 EXCEPT !.inpaintMaskCanvas = ClearRect(@),
                              !.inpaintUndoStack = <<>>]
    IN UpdateInpaintButtonState([s2 EXCEPT !.isLoading = FALSE, !.inflight = NULL])

\* lines 1991-2028: handleInpaintClick from the response on; the image returned
\* is handed to handleSaveImage (line 2008)
HandleInpaintResponse(s, outcome) ==
    LET s1 == IF outcome = "image"
              THEN IncrementGenerationCount(HandleSaveImage(s, FreshId(s)))
              ELSE s
    IN UpdateInpaintButtonState([s1 EXCEPT !.isLoading = FALSE, !.inflight = NULL])

\* lines 2339-2396: handleGenerateClick up to the call of generateContent or
\* generateImages (promptInputEl is set by the first rendering of the page)
HandleGenerateClick(s) ==
    IF s.isLoading THEN s
    ELSE IF s.generationCount >= GENERATION_LIMIT THEN s
    ELSE [s EXCEPT !.isLoading = TRUE, !.pending["generate"] = @ + 1]

\* lines 1536-1597: handleChangeBackgroundClick up to the call of generateContent
HandleChangeBackgroundClick(s) ==
    IF s.isLoading \/ s.originalImage = NULL THEN s
    ELSE IF s.generationCount >= GENERATION_LIMIT THEN s
    ELSE [s EXCEPT !.isLoading = TRUE, !.pending["background"] = @ + 1]

\* lines 1641-1705: handleRestoreClick up to the call of generateContent
HandleRestoreClick(s) ==
    IF s.isLoading \/ s.restorationImage = NULL THEN s
    ELSE IF s.generationCount >= GENERATION_LIMIT THEN s
    ELSE [s EXCEPT !.isLoading = TRUE, !.pending["restore"] = @ + 1]

\* lines 1480-1513: handleGenerateBackgroundPromptClick up to the call of
\* generateContent
HandleGenerateBackgroundPromptClick(s) ==
    IF s.originalImage = NULL THEN s
    ELSE [s EXCEPT !.isLoading = TRUE, !.pending["suggest"] = @ + 1]

\* lines 2295-2307: the 'change' listener of handleAnalyzeClick, with a file
\* chosen, up to the await of fileToBase64
HandleAnalyzeChange(s) ==
    [s EXCEPT !.isLoading = TRUE, !.pending["read"] = @ + 1]

\* lines 2307-2321 and 2325-2333: the file has been read and generateContent is
\* called, or the reading failed and the handler ends
HandleAnalyzeFileRead(s, outcome) ==
    IF outcome = "error"
    THEN [s EXCEPT !.isLoading = FALSE, !.pending["read"] = @ - 1]
    ELSE [s EXCEPT !.pending["read"] = @ - 1, !.pending["analyze"] = @ + 1]

\* mutant: the count goes up whenever the request returns, image or not
HandleImageResponseCountsAll(s, kind, outcome) ==
    LET s0 == IF outcome = "image" THEN HandleSaveImage(s, FreshId(s)) ELSE s
        s1 == IF outcome # "error" THEN IncrementGenerationCount(s0) ELSE s0
    IN [s1 EXCEPT !.isLoading = FALSE, !.pending[kind] = @ - 1]

\* lines 2397-2444, 1599-1636, 1707-1744: an image request of another tab
\* settles; the buttons refreshed are those of that tab
HandleImageResponse(s, kind, outcome) ==
    LET s1 == IF outcome = "image"
              THEN IncrementGenerationCount(HandleSaveImage(s, FreshId(s)))
              ELSE s
    IN [s1 EXCEPT !.isLoading = FALSE, !.pending[kind] = @ - 1]

\* mutant: a request that throws leaves isLoading as it is
HandleTextResponseKeepsLoading(s, kind, outcome) ==
    IF outcome = "error"
    THEN [s EXCEPT !.pending[kind] = @ - 1]
    ELSE [s EXCEPT !.isLoading = FALSE, !.pending[kind] = @ - 1]

\* lines 1515-1531 and 2323-2333: a text request settles
HandleTextResponse(s, kind, outcome) ==
    [s EXCEPT !.isLoading = FALSE, !.pending[kind] = @ - 1]

----------------------------------------------------------------------------
(* The state as a record, and the step that installs a handler's result *)

Cur ==
    [inpaintImage         |-> inpaintImage,
     inpaintOriginalImage |-> inpaintOriginalImage,
     inpaintDisplayCanvas |-> inpaintDisplayCanvas,
     inpaintMaskCanvas    |-> inpaintMaskCanvas,
     inpaintIsDrawing     |-> inpaintIsDrawing,
     inpaintBrushSize     |-> inpaintBrushSize,
     inpaintUndoStack     |-> inpaintUndoStack,
     isLoading            |-> isLoading,
     generationCount      |-> generationCount,
     displayCanvasEl      |-> displayCanvasEl,
     displayOverlay       |-> displayOverlay,
     btnDisabled          |-> btnDisabled,
     promptValue          |-> promptValue,
     inflight             |-> inflight,
     originalImage        |-> originalImage,
     restorationImage     |-> restorationImage,
     pending              |-> pending,
     savedImages          |-> savedImages,
     db                   |-> db,
     dbLoad               |-> dbLoad,
     dbOps                |-> dbOps]

\* The module-level initialisers (lines 100-137), the stored generation count
\* (lines 235-236), the load of the saved images begun (line 289) on a store
\* that holds none, and the inpaint tab as renderInpaintUI leaves it when no image
\* is held (lines 1208-1268): a disabled button (line 1243), an empty prompt
\* (line 1238), the display canvas looked up (line 1252) at its default size.
InitialState(storedCount) ==
    [inpaintImage         |-> NULL,
     inpaintOriginalImage |-> NULL,
     inpaintDisplayCanvas |-> REF,
     inpaintMaskCanvas    |-> NULL,
     inpaintIsDrawing     |-> FALSE,
     inpaintBrushSize     |-> InitialBrushSize,
     inpaintUndoStack     |-> <<>>,
     isLoading            |-> FALSE,
     generationCount      |-> storedCount,
     displayCanvasEl      |-> DefaultCanvasSize,
     displayOverlay       |-> NoOverlay(DefaultCanvasSize),
     btnDisabled          |-> TRUE,
     promptValue          |-> <<>>,
     inflight             |-> NULL,
     originalImage        |-> NULL,
     restorationImage     |-> NULL,
     pending              |-> NonePending,
     savedImages          |-> <<>>,
     db                   |-> {},
     dbLoad               |-> "pending",
     dbOps                |-> <<>>]

\* the same, of the unprimed variables
Initially(s) ==
    /\ inpaintImage = s.inpaintImage
    /\ inpaintOriginalImage = s.inpaintOriginalImage
    /\ inpaintDisplayCanvas = s.inpaintDisplayCanvas
    /\ inpaintMaskCanvas = s.inpaintMaskCanvas
    /\ inpaintIsDrawing = s.inpaintIsDrawing
    /\ inpaintBrushSize = s.inpaintBrushSize
    /\ inpaintUndoStack = s.inpaintUndoStack
    /\ isLoading = s.isLoading
    /\ generationCount = s.generationCount
    /\ displayCanvasEl = s.displayCanvasEl
    /\ displayOverlay = s.displayOverlay
    /\ btnDisabled = s.btnDisabled
    /\ promptValue = s.promptValue
    /\ inflight = s.inflight
    /\ originalImage = s.originalImage
    /\ restorationImage = s.restorationImage
    /\ pending = s.pending
    /\ savedImages = s.savedImages
    /\ db = s.db
    /\ dbLoad = s.dbLoad
    /\ dbOps = s.dbOps

Install(s) ==
    /\ inpaintImage' = s.inpaintImage
    /\ inpaintOriginalImage' = s.inpaintOriginalImage
    /\ inpaintDisplayCanvas' = s.inpaintDisplayCanvas
    /\ inpaintMaskCanvas' = s.inpaintMaskCanvas
    /\ inpaintIsDrawing' = s.inpaintIsDrawing
    /\ inpaintBrushSize' = s.inpaintBrushSize
    /\ inpaintUndoStack' = s.inpaintUndoStack
    /\ isLoading' = s.isLoading
    /\ generationCount' = s.generationCount
    /\ displayCanvasEl' = s.displayCanvasEl
    /\ displayOverlay' = s.displayOverlay
    /\ btnDisabled' = s.btnDisabled
    /\ promptValue' = s.promptValue
    /\ inflight' = s.inflight
    /\ originalImage' = s.originalImage
    /\ restorationImage' = s.restorationImage
    /\ pending' = s.pending
    /\ savedImages' = s.savedImages
    /\ db' = s.db
    /\ dbLoad' = s.dbLoad
    /\ dbOps' = s.dbOps

----------------------------------------------------------------------------
(* Observers: they record what happened and take no part in it *)

NoScenario == [phase |-> "none", R |-> NULL, H |-> <<>>, M |-> NULL]

\* A stroke begun in the clean state, or a clear-all, and the undo that follows
\* it at once.  R and H are the mask canvas and the history before it began, M
\* is the mask canvas as the stroke or the clear-all left it.
NextScenario(name, before, after) ==
    CASE name = "down" ->
            IF ~before.inpaintIsDrawing
            THEN [phase |-> "stroke", R |-> before.inpaintMaskCanvas,
                  H |-> before.inpaintUndoStack, M |-> after.inpaintMaskCanvas]
            ELSE NoScenario
      [] name = "move" ->
            IF scenario.phase = "stroke"
            THEN [scenario EXCEPT !.M = after.inpaintMaskCanvas] ELSE NoScenario
      [] name = "up" ->
            IF scenario.phase = "stroke"
            THEN [scenario EXCEPT !.phase = "stroked"] ELSE NoScenario
      [] name = "clear" ->
            [phase |-> "cleared", R |-> before.inpaintMaskCanvas,
             H |-> before.inpaintUndoStack, M |-> after.inpaintMaskCanvas]
      [] name = "undo" ->
            IF scenario.phase = "stroked"
            THEN [scenario EXCEPT !.phase = "strokeUndone"]
            ELSE IF scenario.phase = "cleared"
            THEN [scenario EXCEPT !.phase = "clearUndone"]
            ELSE IF before.inpaintUndoStack = <<>>
            THEN [phase |-> "undoEmpty", R |-> before.inpaintMaskCanvas,
                  H |-> before.inpaintUndoStack, M |-> after.inpaintMaskCanvas]
            ELSE NoScenario
      [] OTHER -> NoScenario

NoCircles == [calls |-> 0, overlapping |-> FALSE]

\* A stroke begins with a pointer-down on the mask canvas and ends with the
\* pointer-up or pointer-leave that follows it, or with that canvas: its removal
\* with its image, or its replacement by the canvas of the next image or of
\* the next rendering of the tab.
NextStroke(name, before) ==
    CASE name = "down" -> before.inpaintMaskCanvas # NULL
      [] name \in {"up", "load", "remove", "render"} -> FALSE
      [] OTHER -> stroke

\* The event handled last: its name, whether a stroke was in progress when it
\* arrived, and whether the history grew while it was handled.
Observe(name, before, after) ==
    /\ lastEvent' = [name    |-> name,
                     drawing |-> before.inpaintIsDrawing,
                     grew    |-> Len(after.inpaintUndoStack) > Len(before.inpaintUndoStack)]
    /\ stroke' = NextStroke(name, before)
    /\ scenario' = NextScenario(name, before, after)

\* the step of a request that settles, and what the request returned
StepReturning(name, after, outcome) ==
    /\ Install(after)
    /\ Observe(name, Cur, after)
    /\ lastOutcome' = outcome
    /\ UNCHANGED <<strokes, undone, painted>>

Step(name, after) == StepReturning(name, after, "none")

----------------------------------------------------------------------------
(* Spec: the inpaint session under every order of its events *)

Files == {"small"}

\* the brush sizes the slider is moved to
BrushSizes == {BrushMin, InitialBrushSize}

\* what the prompt is edited to: nothing, blank, text
PromptValues == {<<>>, <<" ">>, <<"a">>}

\* pointer events: on the canvas, and far outside it
PointerEvents == {Mouse(0, 0), Touch(1, 0), Mouse(0 - BrushMax, 0)}

Outcomes == {"image", "empty", "safety", "error"}

StoredCounts == (GENERATION_LIMIT - MaxGenerations)..GENERATION_LIMIT

Init ==
    /\ \E c \in StoredCounts : Initially(InitialState(c))
    /\ lastEvent = [name |-> "init", drawing |-> FALSE, grew |-> FALSE]
    /\ stroke = FALSE
    /\ lastOutcome = "none"
    /\ scenario = NoScenario
    /\ strokes = <<>>
    /\ undone = <<>>
    /\ painted = NoCircles

\* a file is chosen or dropped on the upload zone, which is shown while no image is held
LoadFile ==
    /\ inpaintImage = NULL
    /\ \E f \in Files : Step("load", ProcessSingleFile(Cur, f))

\* the Image finishes decoding and its load event fires
ImageLoaded ==
    /\ inpaintOriginalImage # NULL
    /\ ~inpaintOriginalImage.complete
    /\ Step("onload", ImageOnload(Cur))

\* the remove button exists while an image is held
RemoveClick ==
    /\ inpaintImage # NULL
    /\ Step("remove", RemoveImage(Cur))

\* mousedown / touchstart
PointerDown ==
    /\ Len(inpaintUndoStack) < MaxHistory
    /\ \E e \in PointerEvents : Step("down", StartInpaintDraw(Cur, e))

\* mousemove / touchmove
PointerMove ==
    /\ \E e \in PointerEvents : Step("move", InpaintDraw(Cur, e))

\* mouseup / mouseleave / touchend
PointerUp ==
    /\ Step("up", StopInpaintDraw(Cur))

UndoClick ==
    /\ Step("undo", HandleUndo(Cur))

ClearClick ==
    /\ Len(inpaintUndoStack) < MaxHistory
    /\ Step("clear", HandleClearMask(Cur))

BrushInput ==
    \E b \in BrushSizes \ {inpaintBrushSize} : Step("brush", BrushSizeInput(Cur, b))

TypePrompt ==
    \E v \in PromptValues \ {promptValue} : Step("prompt", PromptInput(Cur, v))

\* lines 249-255: the user leaves for another tab, where no element of the
\* inpaint tab exists, and comes back
TabReturn ==
    /\ Step("render", RenderInpaintUI(Cur))

\* a disabled button dispatches no click
InpaintClick ==
    /\ ~btnDisabled
    /\ Step("submit", HandleInpaintClick(Cur))

\* generateContent settles
Response ==
    /\ inflight # NULL
    /\ \E o \in Outcomes : StepReturning("response", HandleInpaintResponse(Cur, o), o)

Next ==
    \/ LoadFile
    \/ ImageLoaded
    \/ RemoveClick
    \/ PointerDown
    \/ PointerMove
    \/ PointerUp
    \/ UndoClick
    \/ ClearClick
    \/ BrushInput
    \/ TypePrompt
    \/ InpaintClick
    \/ Response
    \/ TabReturn

Spec == Init /\ [][Next]_vars

----------------------------------------------------------------------------
(* SpecHistory: load, removal, strokes, clear-all and undo without any cap on *)
(* the history, with one pointer position and the prompt left empty          *)

HistoryEvents == {Mouse(0, 0)}

InitHistory ==
    /\ Initially(InitialState(GENERATION_LIMIT - MaxGenerations))
    /\ lastEvent = [name |-> "init", drawing |-> FALSE, grew |-> FALSE]
    /\ stroke = FALSE
    /\ lastOutcome = "none"
    /\ scenario = NoScenario
    /\ strokes = <<>>
    /\ undone = <<>>
    /\ painted = NoCircles

HistoryDown ==
    /\ \E e \in HistoryEvents : Step("down", StartInpaintDraw(Cur, e))

HistoryMove ==
    /\ \E e \in HistoryEvents : Step("move", InpaintDraw(Cur, e))

HistoryClear ==
    /\ Step("clear", HandleClearMask(Cur))

NextHistory ==
    \/ LoadFile
    \/ ImageLoaded
    \/ RemoveClick
    \/ HistoryDown
    \/ HistoryMove
    \/ PointerUp
    \/ UndoClick
    \/ HistoryClear

SpecHistory == InitHistory /\ [][NextHistory]_vars

----------------------------------------------------------------------------
(* SpecUndo: on a freshly loaded image, completed strokes and then undos.    *)
(* Stroke number n starts at column n - 1 of the canvas, and a pointer-move   *)
(* sample stays in that column, so that every stroke changes the raster and  *)
(* no two pre-stroke rasters are equal.                                      *)

\* the session once the image "wide" has been chosen and has finished loading
\* and the brush slider has been moved to its minimum
FreshlyLoaded ==
    BrushSizeInput(
        ImageOnload(ProcessSingleFile(
            InitialState(GENERATION_LIMIT - MaxGenerations), "wide")),
        BrushMin)

RECURSIVE TotalMoves(_)
TotalMoves(ss) ==
    IF ss = <<>> THEN 0 ELSE Head(ss).moves + TotalMoves(Tail(ss))

InitUndo ==
    /\ Initially(FreshlyLoaded)
    /\ lastEvent = [name |-> "onload", drawing |-> FALSE, grew |-> FALSE]
    /\ stroke = FALSE
    /\ lastOutcome = "none"
    /\ scenario = NoScenario
    /\ strokes = <<>>
    /\ undone = <<>>
    /\ painted = NoCircles

StrokeDown ==
    /\ ~inpaintIsDrawing
    /\ undone = <<>>
    /\ Len(strokes) < MaxStrokes
    /\ LET after == StartInpaintDraw(Cur, Mouse(Len(strokes), 0))
       IN /\ Install(after)
          /\ Observe("down", Cur, after)
          /\ strokes' = Append(strokes, [before |-> inpaintMaskCanvas, moves |-> 0])
    /\ UNCHANGED <<undone, painted, lastOutcome>>

StrokeMove ==
    /\ inpaintIsDrawing
    /\ TotalMoves(strokes) < MaxMoves
    /\ LET after == InpaintDraw(Cur, Touch(Len(strokes) - 1, 1))
       IN /\ Install(after)
          /\ Observe("move", Cur, after)
          /\ strokes' = [strokes EXCEPT ![Len(strokes)].moves = @ + 1]
    /\ UNCHANGED <<undone, painted, lastOutcome>>

StrokeUp ==
    /\ inpaintIsDrawing
    /\ Step("up", StopInpaintDraw(Cur))

\* one undo more than can take effect
StrokeUndo ==
    /\ ~inpaintIsDrawing
    /\ strokes # <<>>
    /\ Len(undone) <= Min(Len(strokes), UNDO_LIMIT)
    /\ LET after == HandleUndo(Cur)
       IN /\ Install(after)
          /\ Observe("undo", Cur, after)
          /\ undone' = Append(undone, [before |-> Cur, after |-> after])
    /\ UNCHANGED <<strokes, painted, lastOutcome>>

NextUndo ==
    \/ StrokeDown
    \/ StrokeMove
    \/ StrokeUp
    \/ StrokeUndo

SpecUndo == InitUndo /\ [][NextUndo]_vars

----------------------------------------------------------------------------
(* SpecPaint: sequences of paintCircle calls on the empty raster of a freshly *)
(* loaded image, with centres on, beside and far from the canvas             *)

PaintBrushSizes == {BrushMin, BrushMin + 1}

\* the session once the image "photo" has been chosen and has finished loading
PaintReady(brush) ==
    BrushSizeInput(
        ImageOnload(ProcessSingleFile(
            InitialState(GENERATION_LIMIT - MaxGenerations), "photo")),
        brush)

PaintEvents ==
    LET size == NaturalSize("photo")
    IN { Mouse(x, y) : x \in (0 - BrushMin)..(size.width + BrushMin),
                       y \in (0 - BrushMin)..(size.height + BrushMin) }

\* The circle of diameter brush about (x, y) and the rectangle of a canvas have
\* more than a boundary point in common: the point of the rectangle nearest to
\* the centre lies strictly inside the circle.
Overlaps(x, y, brush, canvas) ==
    LET dx == Max(0, Max(0 - x, x - canvas.width))
        dy == Max(0, Max(0 - y, y - canvas.height))
    IN brush > 0 /\ 4 * (dx * dx + dy * dy) < brush * brush

Painting(event) ==
    LET pos == GetEventPosition(event)
    IN [calls       |-> painted.calls + 1,
        overlapping |-> painted.overlapping
                        \/ Overlaps(pos.x, pos.y, inpaintBrushSize, inpaintMaskCanvas)]

InitPaint ==
    /\ \E b \in PaintBrushSizes : Initially(PaintReady(b))
    /\ lastEvent = [name |-> "onload", drawing |-> FALSE, grew |-> FALSE]
    /\ stroke = FALSE
    /\ lastOutcome = "none"
    /\ scenario = NoScenario
    /\ strokes = <<>>
    /\ undone = <<>>
    /\ painted = NoCircles

PaintDown ==
    /\ ~inpaintIsDrawing
    /\ painted.calls < MaxPaints
    /\ \E e \in PaintEvents :
          LET after == StartInpaintDraw(Cur, e)
          IN /\ Install(after)
             /\ Observe("down", Cur, after)
             /\ painted' = Painting(e)
    /\ UNCHANGED <<strokes, undone, lastOutcome>>

PaintMove ==
    /\ inpaintIsDrawing
    /\ painted.calls < MaxPaints
    /\ \E e \in PaintEvents :
          LET after == InpaintDraw(Cur, e)
          IN /\ Install(after)
             /\ Observe("move", Cur, after)
             /\ painted' = Painting(e)
    /\ UNCHANGED <<strokes, undone, lastOutcome>>

PaintUp ==
    /\ inpaintIsDrawing
    /\ Step("up", StopInpaintDraw(Cur))

NextPaint ==
    \/ PaintDown
    \/ PaintMove
    \/ PaintUp

SpecPaint == InitPaint /\ [][NextPaint]_vars

----------------------------------------------------------------------------
(* SpecSnapshot: on the freshly loaded image "photo", circles painted with    *)
(* the smallest brush (their edges cover pixels in part), clear-all and undo  *)
(* in every order, a pointer-down during a stroke included                    *)

\* pointer events: at two corners of the canvas, and far outside it
SnapshotEvents == {Mouse(0, 0), Touch(3, 2), Mouse(0 - BrushMax, 0)}

InitSnapshot ==
    /\ Initially(PaintReady(BrushMin))
    /\ lastEvent = [name |-> "onload", drawing |-> FALSE, grew |-> FALSE]
    /\ stroke = FALSE
    /\ lastOutcome = "none"
    /\ scenario = NoScenario
    /\ strokes = <<>>
    /\ undone = <<>>
    /\ painted = NoCircles

SnapshotDown ==
    /\ Len(inpaintUndoStack) < MaxHistory
    /\ painted.calls < MaxPaints
    /\ \E e \in SnapshotEvents :
          LET after == StartInpaintDraw(Cur, e)
          IN /\ Install(after)
             /\ Observe("down", Cur, after)
             /\ painted' = Painting(e)
    /\ UNCHANGED <<strokes, undone, lastOutcome>>

SnapshotMove ==
    /\ inpaintIsDrawing
    /\ painted.calls < MaxPaints
    /\ \E e \in SnapshotEvents :
          LET after == InpaintDraw(Cur, e)
          IN /\ Install(after)
             /\ Observe("move", Cur, after)
             /\ painted' = Painting(e)
    /\ UNCHANGED <<strokes, undone, lastOutcome>>

SnapshotUp ==
    /\ inpaintIsDrawing
    /\ Step("up", StopInpaintDraw(Cur))

SnapshotClear ==
    /\ Len(inpaintUndoStack) < MaxHistory
    /\ Step("clear", HandleClearMask(Cur))

SnapshotUndo ==
    /\ Step("undo", HandleUndo(Cur))

NextSnapshot ==
    \/ SnapshotDown
    \/ SnapshotMove
    \/ SnapshotUp
    \/ SnapshotClear
    \/ SnapshotUndo

SpecSnapshot == InitSnapshot /\ [][NextSnapshot]_vars

----------------------------------------------------------------------------
(* SpecGeometry: images of different sizes chosen, loaded, drawn on with the  *)
(* initial brush, removed, and the tab left and entered again                 *)

\* an image of the default canvas size and a larger one
GeometryFiles == {"small", "photo"}

GeometryLoad ==
    /\ inpaintImage = NULL
    /\ \E f \in GeometryFiles : Step("load", ProcessSingleFile(Cur, f))

GeometryDown ==
    /\ Len(inpaintUndoStack) < MaxHistory
    /\ Step("down", StartInpaintDraw(Cur, Mouse(0, 0)))

NextGeometry ==
    \/ GeometryLoad
    \/ ImageLoaded
    \/ RemoveClick
    \/ GeometryDown
    \/ PointerUp
    \/ UndoClick
    \/ TabReturn

SpecGeometry == InitHistory /\ [][NextGeometry]_vars

----------------------------------------------------------------------------
(* SpecRequests: the handlers of the four tabs that call the AI service, and  *)
(* the settling of their calls in any order.  The session starts with a       *)
(* picture in the background tab and in the restore tab, and in the inpaint   *)
(* tab a loaded image, one stroke and an instruction.  Which tab is shown is  *)
(* not modelled, nor are the buttons of the other three tabs: a handler runs  *)
(* whenever its own guards let it.                                             *)

\* the requests to the AI service that have been sent and have not settled
InFlight(s) ==
    (IF s.inflight # NULL THEN 1 ELSE 0)
    + s.pending["generate"] + s.pending["background"] + s.pending["restore"]
    + s.pending["suggest"] + s.pending["analyze"]

\* the same, with the files being read for analysis
Awaited(s) == InFlight(s) + s.pending["read"]

\* what a call returns or throws
ImageOutcomes == {"image", "empty", "safety", "error"}

TextOutcomes == {"text", "error"}

RequestsReady(storedCount) ==
    LET loaded  == ImageOnload(ProcessSingleFile(InitialState(storedCount), "small"))
        stroked == StopInpaintDraw(StartInpaintDraw(loaded, Mouse(0, 0)))
    IN [PromptInput(stroked, <<"a">>) EXCEPT
           !.originalImage = [file |-> "small", base64 |-> "small"],
           !.restorationImage = [file |-> "small", base64 |-> "small"]]

InitRequests ==
    /\ \E c \in StoredCounts : Initially(RequestsReady(c))
    /\ lastEvent = [name |-> "prompt", drawing |-> FALSE, grew |-> FALSE]
    /\ stroke = FALSE
    /\ lastOutcome = "none"
    /\ scenario = NoScenario
    /\ strokes = <<>>
    /\ undone = <<>>
    /\ painted = NoCircles

GenerateClick ==
    /\ Awaited(Cur) < MaxPending
    /\ Step("generate", HandleGenerateClick(Cur))

ChangeBackgroundClick ==
    /\ Awaited(Cur) < MaxPending
    /\ Step("background", HandleChangeBackgroundClick(Cur))

RestoreClick ==
    /\ Awaited(Cur) < MaxPending
    /\ Step("restore", HandleRestoreClick(Cur))

\* lines 1115-1122: the suggestion is confirmed by its button or the Enter key
SuggestClick ==
    /\ Awaited(Cur) < MaxPending
    /\ Step("suggest", HandleGenerateBackgroundPromptClick(Cur))

\* a file is chosen in the dialog that handleAnalyzeClick opened
AnalyzeChosen ==
    /\ Awaited(Cur) < MaxPending
    /\ Step("analyze", HandleAnalyzeChange(Cur))

\* fileToBase64 settles
FileRead ==
    /\ pending["read"] > 0
    /\ \E o \in {"read", "error"} : Step("read", HandleAnalyzeFileRead(Cur, o))

\* generateContent or generateImages settles for an image request
ImageSettled ==
    \E k \in ImageRequests :
        /\ pending[k] > 0
        /\ \E o \in ImageOutcomes :
              StepReturning("settled", HandleImageResponse(Cur, k, o), o)

\* generateContent settles for a text request
TextSettled ==
    \E k \in TextRequests :
        /\ pending[k] > 0
        /\ \E o \in TextOutcomes :
              StepReturning("settled", HandleTextResponse(Cur, k, o), o)

\* the inpaint tab's submit button, enabled or not as the handlers left it
RequestsInpaintClick ==
    /\ ~btnDisabled
    /\ Awaited(Cur) < MaxPending
    /\ Step("submit", HandleInpaintClick(Cur))

\* the instruction is edited, which refreshes the submit button
RequestsTypePrompt ==
    \E v \in {<<"a">>, <<"a", "a">>} \ {promptValue} : Step("prompt", PromptInput(Cur, v))

NextRequests ==
    \/ GenerateClick
    \/ ChangeBackgroundClick
    \/ RestoreClick
    \/ SuggestClick
    \/ AnalyzeChosen
    \/ FileRead
    \/ ImageSettled
    \/ TextSettled
    \/ RequestsInpaintClick
    \/ Response
    \/ RequestsTypePrompt

SpecRequests == InitRequests /\ [][NextRequests]_vars

\* every call made eventually returns or throws
SpecRequestsLive ==
    /\ SpecRequests
    /\ WF_vars(FileRead)
    /\ WF_vars(ImageSettled)
    /\ WF_vars(TextSettled)
    /\ WF_vars(Response)

----------------------------------------------------------------------------
(* SpecStorage: the saved images.  The page opens on a store that holds the   *)
(* images of earlier visits and begins to load them; images returned by      *)
(* requests are saved and listed images removed while the load and earlier   *)
(* writes are still awaited.  IndexedDB runs the transactions on one object  *)
(* store in the order of their creation and delivers their events in that    *)
(* order, so the load settles first and the writes settle oldest first.      *)

\* what the store holds when the page is opened
StoredBefore == {{}, {1}, {1, 2}}

InitStorage ==
    /\ \E stored \in StoredBefore :
          Initially([InitialState(GENERATION_LIMIT - MaxGenerations) EXCEPT !.db = stored])
    /\ lastEvent = [name |-> "init", drawing |-> FALSE, grew |-> FALSE]
    /\ stroke = FALSE
    /\ lastOutcome = "none"
    /\ scenario = NoScenario
    /\ strokes = <<>>
    /\ undone = <<>>
    /\ painted = NoCircles

\* lines 2008, 1617, 1723, 2407, 2426: a response hands its image to handleSaveImage
ImageSaved ==
    /\ FreshId(Cur) <= MaxImages
    /\ Len(dbOps) < MaxWrites
    /\ Step("save", HandleSaveImage(Cur, FreshId(Cur)))

\* lines 2214-2222: the remove button of an image of the rendered list
SavedImageRemoveClick ==
    /\ Len(dbOps) < MaxWrites
    /\ \E k \in 1..Len(savedImages) :
          Step("unsave", HandleRemoveSavedImage(Cur, savedImages[k]))

\* the load's request succeeds or fails
ImagesLoaded ==
    /\ dbLoad = "pending"
    /\ \E ok \in BOOLEAN :
          StepReturning("loaded", HandleImagesLoaded(Cur, ok), IF ok THEN "ok" ELSE "error")

\* the oldest write's transaction completes or fails
Stored ==
    /\ dbLoad # "pending"
    /\ dbOps # <<>>
    /\ \E ok \in BOOLEAN :
          StepReturning("stored", HandleStored(Cur, ok), IF ok THEN "ok" ELSE "error")

NextStorage ==
    \/ ImageSaved
    \/ SavedImageRemoveClick
    \/ ImagesLoaded
    \/ Stored

SpecStorage == InitStorage /\ [][NextStorage]_vars

----------------------------------------------------------------------------
(* The claims *)

\* C1: after any sequence of pointer, clear-all, undo, load and remove events
\* the undo history holds at most 10 snapshots.
C1_HistoryAtMostTen == Len(inpaintUndoStack) <= 10

\* a stroke or a clear-all pushed onto a full history, which did not grow
C1_Witness ==
    /\ lastEvent.name \in {"down", "clear"}
    /\ inpaintMaskCanvas # NULL
    /\ ~lastEvent.grew
    /\ Len(inpaintUndoStack) = 10

\* After n completed strokes on a freshly loaded image, undo number k restores
\* the raster as it was before stroke n - k + 1 while snapshots are left (at
\* most 10), and changes nothing afterwards.
UndoIsLifo(n) ==
    Len(strokes) = n =>
        \A k \in 1..Len(undone) :
            IF k <= Min(n, 10)
            THEN undone[k].after.inpaintMaskCanvas = strokes[n - k + 1].before
            ELSE undone[k].after = undone[k].before

\* C2: after three completed strokes S1, S2, S3 on a freshly loaded image the
\* first undo restores the raster as it was before S3, the second as before S2,
\* the third as before S1, and a fourth undo changes nothing.
C2_ThreeStrokesUndoneInReverse == UndoIsLifo(3)

\* three strokes, one of them with a pointer-move sample, and four undos
C2_Witness ==
    /\ Len(strokes) = 3
    /\ TotalMoves(strokes) > 0
    /\ Len(undone) = 4

\* C3: after 15 completed strokes on a freshly loaded image exactly 10 undos
\* take effect; they restore, in order, the pre-stroke rasters of strokes 15
\* down to 6; those of strokes 1 to 5 were discarded; an 11th undo is a no-op.
C3_OldestFiveEvicted ==
    /\ UndoIsLifo(15)
    /\ Len(strokes) = 15 =>
          \A k \in 1..Len(undone) :
              /\ k <= 10 => Len(undone[k].after.inpaintUndoStack)
                               = Len(undone[k].before.inpaintUndoStack) - 1
              /\ k >= 10 => undone[k].after.inpaintUndoStack = <<>>
              /\ \A i \in 1..5 :
                    undone[k].after.inpaintMaskCanvas # strokes[i].before

\* fifteen strokes and eleven undos
C3_Witness ==
    /\ Len(strokes) = 15
    /\ Len(undone) = 11

\* C4: a stroke started while no stroke is in progress (pointer-down, any
\* pointer-moves, pointer-up) and undone at once leaves the raster exactly as
\* it was before the stroke.
C4_StrokeThenUndoRestores ==
    scenario.phase = "strokeUndone" => inpaintMaskCanvas = scenario.R

\* a stroke with a pointer-move sample that changed an already painted raster
C4_Witness ==
    /\ scenario.phase = "strokeUndone"
    /\ HasDrawing(GetImageData(scenario.R))
    /\ scenario.M # scenario.R
    /\ strokes[Len(strokes)].moves > 0

\* C5: clear-all followed at once by undo restores the raster exactly, and
\* leaves the history as it was when it was not at capacity.
C5_ClearThenUndoRestores ==
    scenario.phase = "clearUndone" =>
        /\ inpaintMaskCanvas = scenario.R
        /\ Len(scenario.H) < 10 => inpaintUndoStack = scenario.H

\* a painted raster, cleared and restored, under a history one short of full
C5_Witness ==
    /\ scenario.phase = "clearUndone"
    /\ scenario.R # NULL
    /\ HasDrawing(GetImageData(scenario.R))
    /\ scenario.M # scenario.R
    /\ Len(scenario.H) = 9

\* C6: undo with an empty history changes nothing: not the mask, the history,
\* isDrawing or the submit control.
C6_UndoOnEmptyHistoryIsNoOp ==
    [][(lastEvent'.name = "undo" /\ inpaintUndoStack = <<>>) => UNCHANGED progVars]_vars

\* an undo on an empty history while an image is held and submit is enabled
C6_Witness ==
    /\ scenario.phase = "undoEmpty"
    /\ inpaintMaskCanvas # NULL
    /\ ~btnDisabled

\* C7: no snapshot is pushed between a pointer-down and the next
\* pointer-up/leave, whatever events arrive in between.
C7_NoPushMidStroke == ~(lastEvent.drawing /\ lastEvent.grew)

\* C8: the submit control is enabled only if an image is loaded, the
\* instruction text is non-empty and the mask raster is non-empty.
C8_SubmitEnabledOnlyWhenComplete ==
    ~btnDisabled =>
        /\ inpaintImage # NULL
        /\ Trim(promptValue) # <<>>
        /\ inpaintMaskCanvas # NULL
        /\ HasDrawing(GetImageData(inpaintMaskCanvas))

\* C9: a request goes out only with an image, a non-empty instruction and a
\* mask that has at least one set pixel.
C9_NoEmptyMaskSubmitted ==
    inflight # NULL =>
        /\ inflight.image # NULL
        /\ Trim(inflight.prompt) # <<>>
        /\ HasDrawing(inflight.mask)

\* C10: after any sequence of paintCircle calls on an empty raster, the raster
\* is non-empty if and only if some call had a positive radius and a circle
\* overlapping the raster bounds.
C10_NonEmptyIffSomeCircleOverlaps ==
    HasDrawing(GetImageData(inpaintMaskCanvas)) <=> painted.overlapping

\* two circles that only graze the raster: it is non-empty, no pixel is opaque
C10_Witness ==
    /\ painted.calls = 2
    /\ painted.overlapping
    /\ lastEvent.name = "move"
    /\ HasDrawing(GetImageData(inpaintMaskCanvas))
    /\ \A k \in 1..Len(inpaintMaskCanvas.data) : inpaintMaskCanvas.data[k] < 255

\* some pixel of the raster is neither transparent nor opaque
HasEdgePixel(image) ==
    \E k \in 1..Len(image.data) : image.data[k] > 0 /\ image.data[k] < 255

PaintStep ==
    /\ lastEvent'.name \in {"down", "move"}
    /\ inpaintMaskCanvas # NULL
    /\ inpaintIsDrawing'

\* C12 (first half): painting a circle never unsets a pixel, nor lowers its alpha.
PaintOnlyAdds ==
    [][PaintStep =>
          \A k \in 1..Len(inpaintMaskCanvas.data) :
              inpaintMaskCanvas'.data[k] >= inpaintMaskCanvas.data[k]]_vars

\* C12: painting a circle only ever adds set pixels, and painting the circle
\* just painted (same centre, same radius) a second time leaves the raster
\* unchanged.
C12_PaintIsUnionAndIdempotent ==
    [][PaintStep =>
          /\ \A k \in 1..Len(inpaintMaskCanvas.data) :
                inpaintMaskCanvas.data[k] > 0 => inpaintMaskCanvas'.data[k] > 0
          /\ \A e \in PaintEvents :
                LET pos == GetEventPosition(e)
                IN inpaintMaskCanvas'
                      = FillArc(inpaintMaskCanvas, pos.x, pos.y, inpaintBrushSize)
                   => FillArc(inpaintMaskCanvas', pos.x, pos.y, inpaintBrushSize)
                         = inpaintMaskCanvas']_vars

\* C13: whatever the outcome of a submission, the submit handler writes
\* neither the mask raster nor the undo history: not when the request is sent,
\* not when it completes.
C13_SubmissionKeepsMaskAndHistory ==
    [][lastEvent'.name \in {"submit", "response"} =>
          /\ inpaintMaskCanvas' = inpaintMaskCanvas
          /\ inpaintUndoStack' = inpaintUndoStack]_vars

\* a request has completed, the drawn mask and its history are still there and
\* the submit control is enabled again
C13_Witness ==
    /\ lastEvent.name = "response"
    /\ inpaintMaskCanvas # NULL
    /\ HasDrawing(GetImageData(inpaintMaskCanvas))
    /\ inpaintUndoStack # <<>>
    /\ ~btnDisabled

CentreDist4(canvas, k, pos) ==
    LET i == (k - 1) % canvas.width
        j == (k - 1) \div canvas.width
    IN (2 * i + 1 - 2 * pos.x) * (2 * i + 1 - 2 * pos.x)
       + (2 * j + 1 - 2 * pos.y) * (2 * j + 1 - 2 * pos.y)

\* the rasters a pointer-down and a pointer-move sample of a stroke leave when
\* they arrive with event e in the current state
PaintResults(e) ==
    { StartInpaintDraw(Cur, e).inpaintMaskCanvas,
      InpaintDraw([Cur EXCEPT !.inpaintIsDrawing = TRUE], e).inpaintMaskCanvas }

MapperPoints ==
    { [clientX |-> x, clientY |-> y] :
          x \in {CanvasRect.left - BrushMax, CanvasRect.left - 1,
                 CanvasRect.left, CanvasRect.left + 4},
          y \in {CanvasRect.top - 1, CanvasRect.top + 1} }

\* mouse events, and touch events with two touch points
MapperEvents ==
    { [kind |-> "mouse", clientX |-> p.clientX, clientY |-> p.clientY] :
          p \in MapperPoints }
    \cup { [kind |-> "touch", touches |-> <<p, q>>] :
              p \in MapperPoints, q \in MapperPoints }

\* the point of an event the position is taken from
PrimaryPoint(e) ==
    IF e.kind = "mouse"
    THEN [clientX |-> e.clientX, clientY |-> e.clientY]
    ELSE e.touches[1]

\* C17: for every mouse or touch event the coordinate mapper returns exactly
\* (clientX - rect.left, clientY - rect.top) of the event, of the primary touch
\* point for a touch event, unclamped; the paint of a stroke lands at that
\* position, the preview is redrawn from the raster and nothing else changes.
C17_MapperIsClientMinusRect ==
    \A e \in MapperEvents :
        LET x == PrimaryPoint(e).clientX - CanvasRect.left
            y == PrimaryPoint(e).clientY - CanvasRect.top
        IN /\ GetEventPosition(e) = [x |-> x, y |-> y]
           /\ inpaintMaskCanvas # NULL =>
                 InpaintDraw([Cur EXCEPT !.inpaintIsDrawing = TRUE], e)
                    = RedrawInpaintDisplay(
                          [Cur EXCEPT !.inpaintIsDrawing = TRUE,
                                      !.inpaintMaskCanvas =
                                          FillArc(@, x, y, inpaintBrushSize)])

\* a pointer-down and a pointer-move far to the left of the canvas: mapped
\* unclamped, they left the raster empty
C17_Witness ==
    /\ painted.calls = 2
    /\ ~painted.overlapping
    /\ lastEvent.name = "move"
    /\ ~HasDrawing(GetImageData(inpaintMaskCanvas))

\* C18: isDrawing is true only while a stroke is in progress on the canvas: it
\* is false initially and after every pointer-up or pointer-leave, it is never
\* true while there is no mask canvas to draw on, and neither the removal of
\* the image nor the choice of another one leaves it true.
C18_DrawingOnlyDuringStroke ==
    /\ lastEvent.name \in {"init", "up", "remove", "load"} => ~inpaintIsDrawing
    /\ inpaintIsDrawing => inpaintMaskCanvas # NULL

\* C18 (the part that holds): only a pointer-down on an existing mask canvas
\* sets isDrawing, only a pointer-up or pointer-leave resets it.
DrawingFlagWriters ==
    [][/\ (inpaintIsDrawing' /\ ~inpaintIsDrawing) =>
             (lastEvent'.name = "down" /\ inpaintMaskCanvas # NULL)
       /\ (~inpaintIsDrawing' /\ inpaintIsDrawing) => lastEvent'.name = "up"
       /\ lastEvent'.name = "up" => ~inpaintIsDrawing']_vars

\* C19: a stroke is atomic: between a pointer-down and the following
\* pointer-up/leave neither undo nor clear-all modifies the raster or the
\* history.
C19_StrokeIsAtomic ==
    [][(inpaintIsDrawing /\ lastEvent'.name \in {"undo", "clear"}) =>
          /\ inpaintMaskCanvas' = inpaintMaskCanvas
          /\ inpaintUndoStack' = inpaintUndoStack]_vars

\* the pixel dimensions of a canvas
Dimensions(canvas) == [width |-> canvas.width, height |-> canvas.height]

\* C20: whenever a mask raster exists its pixel dimensions equal those of the
\* display canvas, and between the choice of an image and its removal or
\* replacement the raster's dimensions do not change.
C20_RasterMatchesCanvasAndKeepsSize ==
    [][/\ inpaintMaskCanvas' # NULL =>
             Dimensions(inpaintMaskCanvas') = displayCanvasEl'
       /\ (inpaintMaskCanvas # NULL /\ inpaintMaskCanvas' # NULL
           /\ lastEvent'.name \notin {"load", "render"}) =>
             Dimensions(inpaintMaskCanvas') = Dimensions(inpaintMaskCanvas)]_vars

\* the overlay on the display canvas covers exactly the pixels set in the mask
OverlayShowsMask ==
    /\ \A k \in 1..Len(inpaintMaskCanvas.data) :
          LET i == (k - 1) % inpaintMaskCanvas.width
              j == (k - 1) \div inpaintMaskCanvas.width
          IN inpaintMaskCanvas.data[k] > 0 <=>
                /\ i < displayCanvasEl.width
                /\ j < displayCanvasEl.height
                /\ displayOverlay[j * displayCanvasEl.width + i + 1] > 0
    /\ \A k \in 1..Len(displayOverlay) :
          LET i == (k - 1) % displayCanvasEl.width
              j == (k - 1) \div displayCanvasEl.width
          IN displayOverlay[k] > 0 =>
                i < inpaintMaskCanvas.width /\ j < inpaintMaskCanvas.height

\* C21: in every state between events the overlay shown covers exactly the
\* pixels set in the mask raster, the raster just created on load included.
C21_PreviewShowsMask == inpaintMaskCanvas # NULL => OverlayShowsMask

\* C21 (the part that holds): every step that changes the mask raster, other
\* than the creation of a new raster when an image is chosen, leaves the
\* overlay covering exactly the pixels set in the raster.
RedrawnAfterMutation ==
    [][(inpaintMaskCanvas' # NULL /\ inpaintMaskCanvas' # inpaintMaskCanvas
        /\ lastEvent'.name # "load") => OverlayShowsMask']_vars

\* C22: the mask handed to a request is the export of the mask raster as it
\* was when submit was activated; the export changes neither the raster nor
\* the history; and nothing done while the request is in flight (strokes,
\* undo, clear-all, removal of the image) alters what was handed over.
C22_ArtifactIsRasterAtSubmit ==
    [][/\ (inflight = NULL /\ inflight' # NULL) =>
             /\ lastEvent'.name = "submit"
             /\ inpaintMaskCanvas # NULL
             /\ inflight'.mask = ToDataURL(inpaintMaskCanvas)
             /\ inpaintMaskCanvas' = inpaintMaskCanvas
             /\ inpaintUndoStack' = inpaintUndoStack
       /\ (inflight # NULL /\ lastEvent'.name # "response") =>
             inflight' = inflight]_vars

\* a request is in flight and the raster has been changed since it was handed
\* its mask by a stroke, an undo or a clear-all
C22_Witness ==
    /\ inflight # NULL
    /\ inpaintMaskCanvas # NULL
    /\ lastEvent.name \in {"down", "move", "undo", "clear"}
    /\ HasDrawing(inflight.mask)
    /\ inflight.mask # ToDataURL(inpaintMaskCanvas)

\* every condition of an enabled submit control holds, and nothing is pending
ReadyToSubmit ==
    /\ ~stroke
    /\ ~isLoading
    /\ inflight = NULL
    /\ generationCount < GENERATION_LIMIT
    /\ inpaintImage # NULL
    /\ inpaintMaskCanvas # NULL
    /\ Trim(promptValue) # <<>>
    /\ HasDrawing(GetImageData(inpaintMaskCanvas))

\* C23: with no stroke in progress, no request in flight and the generation
\* limit not reached, the submit control is enabled whenever an image is
\* loaded, the instruction text is not blank and the mask is not empty, in
\* whatever order the canvas was clicked and the text typed.
C23_SubmitEnabledWhenComplete == ReadyToSubmit => ~btnDisabled

\* C23 (the part that holds): the same, when moreover inpaintIsDrawing is false.
SubmitEnabledWhenFlagDown == (ReadyToSubmit /\ ~inpaintIsDrawing) => ~btnDisabled

\* C23 (the example): a click on the canvas of a loaded image and a text typed,
\* in either order, leave the submit control enabled.
ClickAndTypeEnable ==
    (/\ ReadyToSubmit
     /\ lastEvent.name \in {"up", "prompt"}
     /\ Len(inpaintUndoStack) = 1) => ~btnDisabled

\* C24: a pointer-move paints a raster only within a stroke that began with a
\* pointer-down on that raster: never on a raster that has received no
\* pointer-down since it was created.
C24_PaintBelongsToStroke ==
    [][(lastEvent'.name = "move" /\ inpaintMaskCanvas' # inpaintMaskCanvas) =>
          stroke]_vars

\* C24 (the part that holds): a pointer-move paints only while isDrawing is true.
PaintOnlyWhileFlagged ==
    [][(lastEvent'.name = "move" /\ inpaintMaskCanvas' # inpaintMaskCanvas) =>
          inpaintIsDrawing]_vars

\* every snapshot of a history has the dimensions of the canvas
SnapshotsFit(stack, canvas) ==
    \A k \in 1..Len(stack) : Dimensions(stack[k]) = Dimensions(canvas)

\* C25: every snapshot in the history was captured from the current mask
\* raster at its current dimensions: a raster just created has an empty
\* history, and no snapshot undo could restore has another size.
C25_SnapshotsAreOfCurrentRaster ==
    [][/\ (lastEvent'.name \in {"load", "render"} /\ inpaintMaskCanvas' # NULL) =>
             inpaintUndoStack' = <<>>
       /\ inpaintMaskCanvas' # NULL =>
             SnapshotsFit(inpaintUndoStack', inpaintMaskCanvas')]_vars

\* C25 (the part that holds): once the image's load event has fired, every
\* snapshot in the history has the dimensions of the mask raster.
SnapshotsFitOnceLoaded ==
    (inpaintMaskCanvas # NULL /\ inpaintOriginalImage.complete) =>
        SnapshotsFit(inpaintUndoStack, inpaintMaskCanvas)

\* C26: at most one request to the AI service is in flight at any time: no
\* handler sends a request while isLoading is true or another request is
\* pending, and isLoading is not reset while a request is still pending.
C26_OneRequestAtATime ==
    [][/\ InFlight(Cur)' <= 1
       /\ InFlight(Cur)' > InFlight(Cur) => (~isLoading \/ lastEvent'.name = "read")
       /\ (isLoading /\ ~isLoading') => InFlight(Cur)' = 0]_vars

\* C26 (the part that holds): the four handlers that produce an image send no
\* request while isLoading is true.
ImageHandlersAreGuarded ==
    [][lastEvent'.name \in {"generate", "background", "restore", "submit"} =>
          (isLoading => UNCHANGED progVars)]_vars

\* C27: generationCount never exceeds GENERATION_LIMIT, whatever the order of
\* the user's actions and of the responses.
C27_CountWithinLimit == generationCount <= GENERATION_LIMIT

\* C27 (the part that holds): no image request is sent once the count has
\* reached the limit.
NoRequestAtLimit ==
    [][(generationCount >= GENERATION_LIMIT
        /\ lastEvent'.name \in {"generate", "background", "restore", "submit"}) =>
          UNCHANGED progVars]_vars

\* C28: generationCount goes up by exactly one when a request returns an image,
\* and no other step changes it: a request that returns no image, is refused
\* or throws, a text request, and every action that is not a response.
C28_CountFollowsImages ==
    [][IF lastEvent'.name \in {"response", "settled"} /\ lastOutcome' = "image"
       THEN generationCount' = generationCount + 1
       ELSE generationCount' = generationCount]_vars

\* a request has just returned an image and taken the count to the limit
C28_Witness ==
    /\ lastEvent.name \in {"response", "settled"}
    /\ lastOutcome = "image"
    /\ generationCount = GENERATION_LIMIT

\* C29: after every request sent isLoading becomes false again, whatever the
\* request returns, given that every call returns or throws.
C29_LoadingIsReleased == isLoading ~> ~isLoading

\* a request has thrown and isLoading is false, nothing being awaited
C29_Witness ==
    /\ lastEvent.name \in {"response", "settled"}
    /\ lastOutcome = "error"
    /\ ~isLoading
    /\ Awaited(Cur) = 0

\* the ids listed in savedImages
Listed(list) == {list[k] : k \in 1..Len(list)}

====
